---- MODULE Spec2Model ----
(***************************************************************************)
(* State-machine model of the agent_registry program                       *)
(* (programs/agent-registry/src/lib.rs).                                   *)
(*                                                                         *)
(* Every instruction is one atomic transaction: account validation (the    *)
(* #[derive(Accounts)] structs) runs first, then the handler; on any error *)
(* nothing is persisted.  The state is the set of AgentProfile and         *)
(* TaskEscrow accounts, the lamports of every wallet and escrow account,   *)
(* and the outcome (result code, emitted events) of the last transaction.  *)
(*                                                                         *)
(* Lamports are counted net of the rent-exempt reserve paid at account     *)
(* creation; transaction fees are not modelled.                            *)
(***************************************************************************)
EXTENDS Integers, Sequences, FiniteSets, TLC

\* ------------------------------------------------------------------------
\* Program constants
\* ------------------------------------------------------------------------
MAX_NAME_LEN == 64
MAX_CAPABILITIES == 8
MAX_CAPABILITY_LEN == 32
MAX_METADATA_URI_LEN == 200
\* literal bound of the task_id length check in create_task
MAX_TASK_ID_LEN == 64
\* longest seed the runtime accepts when deriving the address of a
\* seeds = [...] account (solana MAX_SEED_LEN)
MAX_SEED_LEN == 32
\* bounds of the rating check in rate_agent
MIN_RATING == 1
MAX_RATING == 5
\* fixed-point factor of reputation_score
REPUTATION_SCALE == 100

\* ------------------------------------------------------------------------
\* Bounds of the model
\* ------------------------------------------------------------------------
\* lamports every wallet starts with
InitialBalance == 1
\* rate_agent is modelled while total_ratings is below this cap
MaxRatings == 1

\* ------------------------------------------------------------------------
\* Values
\* ------------------------------------------------------------------------
\* a string of n bytes, all equal to c
Str(c, n) == [i \in 1..n |-> c]

Principals == {"alice", "bob"}

\* Option<T>: None is the empty sequence, Some(v) a one-element sequence
None == << >>
Some(v) == << v >>
IsSome(o) == Len(o) = 1
Unwrap(o) == o[1]

\* addresses derived from seeds; injective by construction
AgentPda(owner) == << "agent", owner >>
EscrowPda(client, task_id) == << "escrow", client, task_id >>

\* the address of a principal's own (system) account
Wallet(p) == << "wallet", p >>

AgentStatus == {"Active", "Inactive"}
TaskStatus == {"Funded", "InProgress", "Completed", "Disputed"}

VARIABLES
    profiles,   \* AgentProfile accounts: address -> record
    escrows,    \* TaskEscrow accounts: address -> record
    lamports,   \* lamports of every wallet and every escrow account
    last,       \* the last transaction: [op, result]
    emitted     \* the events the last transaction emitted

vars == << profiles, escrows, lamports, last, emitted >>

Init ==
    /\ profiles = << >>
    /\ escrows = << >>
    /\ lamports = [w \in { Wallet(p) : p \in Principals } |-> InitialBalance]
    /\ last = [op |-> "none", result |-> "Ok"]
    /\ emitted = << >>

\* the transaction failed: nothing is persisted, nothing is emitted
Abort(op, err) ==
    /\ last' = [op |-> op, result |-> err]
    /\ emitted' = << >>
    /\ UNCHANGED << profiles, escrows, lamports >>

\* mutant: a successful transaction emits nothing
CommitSilently(op, ev) ==
    /\ last' = [op |-> op, result |-> "Ok"]
    /\ emitted' = << >>

\* the transaction succeeded and emitted ev
Commit(op, ev) ==
    /\ last' = [op |-> op, result |-> "Ok"]
    /\ emitted' = << ev >>

\* ------------------------------------------------------------------------
\* register_agent
\* ------------------------------------------------------------------------
\* the field checks shared by register_agent and update_agent
NameError(name) ==
    IF Len(name) <= MAX_NAME_LEN THEN "Ok" ELSE "NameTooLong"

CapabilitiesError(caps) ==
    IF ~(Len(caps) <= MAX_CAPABILITIES) THEN "TooManyCapabilities"
    ELSE IF \E i \in 1..Len(caps) : ~(Len(caps[i]) <= MAX_CAPABILITY_LEN)
         THEN "CapabilityTooLong"
    ELSE "Ok"

MetadataUriError(uri) ==
    IF Len(uri) <= MAX_METADATA_URI_LEN THEN "Ok" ELSE "MetadataUriTooLong"

PricingError(p) ==
    IF p > 0 THEN "Ok" ELSE "InvalidPricing"

\* first error of a list of check results, "Ok" if none
RECURSIVE FirstError(_)
FirstError(errs) ==
    IF errs = << >> THEN "Ok"
    ELSE IF Head(errs) # "Ok" THEN Head(errs)
    ELSE FirstError(Tail(errs))

\* RegisterAgent accounts: init of the profile at seeds ["agent", owner]
RegisterAgentAccountsError(owner) ==
    IF AgentPda(owner) \in DOMAIN profiles THEN "AccountAlreadyInUse"
    ELSE "Ok"

RegisterAgentError(owner, name, capabilities, pricing_lamports, metadata_uri) ==
    FirstError(<< RegisterAgentAccountsError(owner),
                  NameError(name),
                  CapabilitiesError(capabilities),
                  MetadataUriError(metadata_uri),
                  PricingError(pricing_lamports) >>)

\* the profile register_agent writes (bump, fixed by the address, is left out)
NewProfile(owner, name, capabilities, pricing_lamports, metadata_uri) ==
    [ owner |-> owner,
      name |-> name,
      capabilities |-> capabilities,
      pricing_lamports |-> pricing_lamports,
      status |-> "Active",
      reputation_score |-> 0,
      tasks_completed |-> 0,
      total_ratings |-> 0,
      rating_sum |-> 0,
      metadata_uri |-> metadata_uri ]

register_agent(owner, name, capabilities, pricing_lamports, metadata_uri) ==
    LET err == RegisterAgentError(owner, name, capabilities,
                                  pricing_lamports, metadata_uri)
        key == AgentPda(owner)
    IN  IF err # "Ok" THEN Abort("register_agent", err)
        ELSE /\ profiles' = (key :> NewProfile(owner, name, capabilities,
                                               pricing_lamports, metadata_uri))
                            @@ profiles
             /\ UNCHANGED << escrows, lamports >>
             /\ Commit("register_agent",
                       [ kind |-> "AgentRegistered", agent |-> key,
                         owner |-> owner, name |-> name,
                         capabilities |-> capabilities,
                         pricing_lamports |-> pricing_lamports,
                         metadata_uri |-> metadata_uri ])

\* ------------------------------------------------------------------------
\* update_agent, deactivate_agent, activate_agent
\* ------------------------------------------------------------------------
\* mutant: any signer is accepted for an existing profile
UpdateAgentAccountsErrorAnySigner(agent_profile, owner) ==
    IF agent_profile \notin DOMAIN profiles THEN "AccountNotInitialized"
    ELSE "Ok"

\* UpdateAgent accounts: the profile must exist, sit at seeds
\* ["agent", owner] and record owner as its owner
UpdateAgentAccountsError(agent_profile, owner) ==
    IF agent_profile \notin DOMAIN profiles THEN "AccountNotInitialized"
    ELSE IF agent_profile # AgentPda(owner) THEN "ConstraintSeeds"
    ELSE IF profiles[agent_profile].owner # owner THEN "ConstraintHasOne"
    ELSE "Ok"

\* mutant: only the accounts and the name are checked
UpdateAgentErrorNameOnly(agent_profile, owner, name, capabilities, pricing_lamports, metadata_uri) ==
    FirstError(<< UpdateAgentAccountsError(agent_profile, owner),
                  IF IsSome(name) THEN NameError(Unwrap(name)) ELSE "Ok" >>)

\* the handler's checks in the order it makes them; a field it has already
\* written when a later check fails is discarded with the transaction
UpdateAgentError(agent_profile, owner, name, capabilities, pricing_lamports, metadata_uri) ==
    FirstError(<< UpdateAgentAccountsError(agent_profile, owner),
                  IF IsSome(name) THEN NameError(Unwrap(name)) ELSE "Ok",
                  IF IsSome(capabilities)
                     THEN CapabilitiesError(Unwrap(capabilities)) ELSE "Ok",
                  IF IsSome(pricing_lamports)
                     THEN PricingError(Unwrap(pricing_lamports)) ELSE "Ok",
                  IF IsSome(metadata_uri)
                     THEN MetadataUriError(Unwrap(metadata_uri)) ELSE "Ok" >>)

\* mutant: only a supplied name is replaced
UpdatedProfileNameOnly(profile, name, capabilities, pricing_lamports, metadata_uri) ==
    [ profile EXCEPT !.name = IF IsSome(name) THEN Unwrap(name) ELSE @ ]

\* the profile after every supplied field has been replaced
UpdatedProfile(profile, name, capabilities, pricing_lamports, metadata_uri) ==
    [ profile EXCEPT
        !.name = IF IsSome(name) THEN Unwrap(name) ELSE @,
        !.capabilities = IF IsSome(capabilities) THEN Unwrap(capabilities)
                         ELSE @,
        !.pricing_lamports = IF IsSome(pricing_lamports)
                             THEN Unwrap(pricing_lamports) ELSE @,
        !.metadata_uri = IF IsSome(metadata_uri) THEN Unwrap(metadata_uri)
                         ELSE @ ]

update_agent(agent_profile, owner, name, capabilities, pricing_lamports, metadata_uri) ==
    LET err == UpdateAgentError(agent_profile, owner, name, capabilities,
                                pricing_lamports, metadata_uri)
    IN  IF err # "Ok" THEN Abort("update_agent", err)
        ELSE /\ profiles' = [profiles EXCEPT ![agent_profile] =
                                UpdatedProfile(@, name, capabilities,
                                               pricing_lamports, metadata_uri)]
             /\ UNCHANGED << escrows, lamports >>
             /\ Commit("update_agent",
                       [ kind |-> "AgentUpdated", agent |-> agent_profile,
                         owner |-> owner ])

deactivate_agent(agent_profile, owner) ==
    LET err == UpdateAgentAccountsError(agent_profile, owner)
    IN  IF err # "Ok" THEN Abort("deactivate_agent", err)
        ELSE /\ profiles' = [profiles EXCEPT
                                ![agent_profile].status = "Inactive"]
             /\ UNCHANGED << escrows, lamports >>
             /\ Commit("deactivate_agent",
                       [ kind |-> "AgentDeactivated", agent |-> agent_profile,
                         owner |-> owner ])

activate_agent(agent_profile, owner) ==
    LET err == UpdateAgentAccountsError(agent_profile, owner)
    IN  IF err # "Ok" THEN Abort("activate_agent", err)
        ELSE /\ profiles' = [profiles EXCEPT
                                ![agent_profile].status = "Active"]
             /\ UNCHANGED << escrows, lamports >>
             /\ Commit("activate_agent",
                       [ kind |-> "AgentActivated", agent |-> agent_profile,
                         owner |-> owner ])

\* ------------------------------------------------------------------------
\* create_task
\* ------------------------------------------------------------------------
\* byte lengths of the seeds [b"escrow", client.key(), task_id]
EscrowSeedLens(task_id) == << 6, 32, Len(task_id) >>

\* mutant: an occupied escrow address is accepted (init_if_needed)
CreateTaskAccountsErrorIfNeeded(client, agent_profile, task_id) ==
    IF agent_profile \notin DOMAIN profiles THEN "AccountNotInitialized"
    ELSE IF \E i \in 1..3 : EscrowSeedLens(task_id)[i] > MAX_SEED_LEN
         THEN "MaxSeedLengthExceeded"
    ELSE "Ok"

\* CreateTask accounts: the profile is deserialized, then the escrow is
\* created (init) at the address derived from its seeds
CreateTaskAccountsError(client, agent_profile, task_id) ==
    IF agent_profile \notin DOMAIN profiles THEN "AccountNotInitialized"
    ELSE IF \E i \in 1..3 : EscrowSeedLens(task_id)[i] > MAX_SEED_LEN
         THEN "MaxSeedLengthExceeded"
    ELSE IF EscrowPda(client, task_id) \in DOMAIN escrows
         THEN "AccountAlreadyInUse"
    ELSE "Ok"

\* the handler's checks, then the system transfer client -> escrow
CreateTaskHandlerError(client, agent_profile, task_id, amount_lamports) ==
    IF ~(Len(task_id) <= MAX_TASK_ID_LEN) THEN "TaskIdTooLong"
    ELSE IF ~(amount_lamports > 0) THEN "InvalidAmount"
    ELSE IF ~(profiles[agent_profile].status = "Active") THEN "AgentNotActive"
    ELSE IF lamports[Wallet(client)] < amount_lamports THEN "InsufficientFunds"
    ELSE "Ok"

CreateTaskError(client, agent_profile, task_id, amount_lamports) ==
    LET acc == CreateTaskAccountsError(client, agent_profile, task_id)
    IN  IF acc # "Ok" THEN acc
        ELSE CreateTaskHandlerError(client, agent_profile, task_id,
                                    amount_lamports)

\* mutant: the escrow is credited but the client is not debited
FundedLamportsNoDebit(client, key, amount_lamports) ==
    (key :> amount_lamports) @@ lamports

\* the lamports after the system transfer client -> new escrow account
FundedLamports(client, key, amount_lamports) ==
    (key :> amount_lamports)
    @@ [lamports EXCEPT ![Wallet(client)] = @ - amount_lamports]

\* the escrow create_task writes (created_at, which no instruction reads,
\* and bump are left out)
NewEscrow(client, agent_profile, task_id, amount_lamports) ==
    [ client |-> client,
      agent |-> agent_profile,
      amount |-> amount_lamports,
      status |-> "Funded",
      task_id |-> task_id ]

create_task(client, agent_profile, task_id, amount_lamports) ==
    LET err == CreateTaskError(client, agent_profile, task_id, amount_lamports)
        key == EscrowPda(client, task_id)
    IN  IF err # "Ok" THEN Abort("create_task", err)
        ELSE /\ lamports' = FundedLamports(client, key, amount_lamports)
             /\ escrows' = (key :> NewEscrow(client, agent_profile, task_id,
                                             amount_lamports))
                           @@ escrows
             /\ UNCHANGED profiles
             /\ Commit("create_task",
                       [ kind |-> "TaskCreated", escrow |-> key,
                         client |-> client, agent |-> agent_profile,
                         task_id |-> task_id, amount |-> amount_lamports ])

\* ------------------------------------------------------------------------
\* accept_task
\* ------------------------------------------------------------------------
\* AgentAction accounts: all accounts are deserialized, then the escrow's
\* constraint, then the profile's seeds and its constraint
AgentActionAccountsError(task_escrow, agent_profile, agent_owner) ==
    IF task_escrow \notin DOMAIN escrows THEN "AccountNotInitialized"
    ELSE IF agent_profile \notin DOMAIN profiles THEN "AccountNotInitialized"
    ELSE IF ~(escrows[task_escrow].agent = agent_profile) THEN "AgentMismatch"
    ELSE IF agent_profile # AgentPda(agent_owner) THEN "ConstraintSeeds"
    ELSE IF ~(profiles[agent_profile].owner = agent_owner) THEN "Unauthorized"
    ELSE "Ok"

\* mutant: accept_task without its status check
AcceptTaskHandlerErrorNoCheck(task_escrow) == "Ok"

\* mutant: accept_task also accepts an escrow already in progress
AcceptTaskHandlerErrorRepeat(task_escrow) ==
    IF ~(escrows[task_escrow].status \in {"Funded", "InProgress"})
       THEN "InvalidTaskStatus"
    ELSE "Ok"

\* mutant: accepting also requires the bound profile to be Active
AcceptTaskHandlerErrorActiveOnly(task_escrow) ==
    IF ~(escrows[task_escrow].status = "Funded") THEN "InvalidTaskStatus"
    ELSE IF ~(profiles[escrows[task_escrow].agent].status = "Active")
         THEN "AgentNotActive"
    ELSE "Ok"

AcceptTaskHandlerError(task_escrow) ==
    IF ~(escrows[task_escrow].status = "Funded") THEN "InvalidTaskStatus"
    ELSE "Ok"

AcceptTaskError(task_escrow, agent_profile, agent_owner) ==
    LET acc == AgentActionAccountsError(task_escrow, agent_profile, agent_owner)
    IN  IF acc # "Ok" THEN acc ELSE AcceptTaskHandlerError(task_escrow)

accept_task(task_escrow, agent_profile, agent_owner) ==
    LET err == AcceptTaskError(task_escrow, agent_profile, agent_owner)
    IN  IF err # "Ok" THEN Abort("accept_task", err)
        ELSE /\ escrows' = [escrows EXCEPT ![task_escrow].status = "InProgress"]
             /\ UNCHANGED << profiles, lamports >>
             /\ Commit("accept_task",
                       [ kind |-> "TaskAccepted", escrow |-> task_escrow,
                         agent |-> agent_profile ])

\* ------------------------------------------------------------------------
\* complete_task
\* ------------------------------------------------------------------------
\* mutant: the profile's seeds and owner constraints are missing
CompleteTaskAccountsErrorNoOwner(task_escrow, agent_profile, agent_owner) ==
    IF task_escrow \notin DOMAIN escrows THEN "AccountNotInitialized"
    ELSE IF agent_profile \notin DOMAIN profiles THEN "AccountNotInitialized"
    ELSE IF ~(escrows[task_escrow].agent = agent_profile) THEN "AgentMismatch"
    ELSE "Ok"

CompleteTaskAccountsError(task_escrow, agent_profile, agent_owner) ==
    IF task_escrow \notin DOMAIN escrows THEN "AccountNotInitialized"
    ELSE IF agent_profile \notin DOMAIN profiles THEN "AccountNotInitialized"
    ELSE IF ~(escrows[task_escrow].agent = agent_profile) THEN "AgentMismatch"
    ELSE IF agent_profile # AgentPda(agent_owner) THEN "ConstraintSeeds"
    ELSE IF ~(profiles[agent_profile].owner = agent_owner) THEN "Unauthorized"
    ELSE "Ok"

\* mutant: complete_task only rejects an escrow that is already completed
CompleteTaskHandlerErrorLax(task_escrow) ==
    IF escrows[task_escrow].status = "Completed" THEN "InvalidTaskStatus"
    ELSE "Ok"

CompleteTaskHandlerError(task_escrow) ==
    IF ~(escrows[task_escrow].status = "InProgress") THEN "InvalidTaskStatus"
    ELSE "Ok"

CompleteTaskError(task_escrow, agent_profile, agent_owner) ==
    LET acc == CompleteTaskAccountsError(task_escrow, agent_profile,
                                         agent_owner)
    IN  IF acc # "Ok" THEN acc ELSE CompleteTaskHandlerError(task_escrow)

\* mutant: the agent owner is credited but the escrow is not debited
ReleasedLamportsNoDebit(task_escrow, agent_owner, amount) ==
    [lamports EXCEPT ![Wallet(agent_owner)] = @ + amount]

\* mutant: the escrow is debited but the agent owner is not credited
ReleasedLamportsNoCredit(task_escrow, agent_owner, amount) ==
    [lamports EXCEPT ![task_escrow] = @ - amount]

\* the lamports after amount has moved from the escrow to the agent owner
ReleasedLamports(task_escrow, agent_owner, amount) ==
    LET debited == [lamports EXCEPT ![task_escrow] = @ - amount]
    IN  [debited EXCEPT ![Wallet(agent_owner)] = @ + amount]

\* mutant: the completion is not counted
CompletedProfileNoCount(profile) == profile

\* the bound profile after one more completed task
CompletedProfile(profile) ==
    [profile EXCEPT !.tasks_completed = @ + 1]

complete_task(task_escrow, agent_profile, agent_owner) ==
    LET err == CompleteTaskError(task_escrow, agent_profile, agent_owner)
    IN  IF err # "Ok" THEN Abort("complete_task", err)
        ELSE LET amount == escrows[task_escrow].amount
             IN  /\ escrows' = [escrows EXCEPT
                                   ![task_escrow].status = "Completed"]
                 /\ lamports' = ReleasedLamports(task_escrow, agent_owner,
                                                 amount)
                 /\ profiles' = [profiles EXCEPT
                                   ![agent_profile] = CompletedProfile(@)]
                 /\ Commit("complete_task",
                           [ kind |-> "TaskCompleted", escrow |-> task_escrow,
                             agent |-> agent_profile, amount |-> amount ])

\* ------------------------------------------------------------------------
\* rate_agent
\* ------------------------------------------------------------------------
\* RateAgent accounts: has_one = client on the escrow, then the profile's
\* constraint
RateAgentAccountsError(task_escrow, agent_profile, client) ==
    IF task_escrow \notin DOMAIN escrows THEN "AccountNotInitialized"
    ELSE IF agent_profile \notin DOMAIN profiles THEN "AccountNotInitialized"
    ELSE IF escrows[task_escrow].client # client THEN "ConstraintHasOne"
    ELSE IF ~(agent_profile = escrows[task_escrow].agent) THEN "AgentMismatch"
    ELSE "Ok"

\* mutant: rate_agent without its status check
RateAgentHandlerErrorNoStatus(task_escrow, rating) ==
    IF ~(rating >= MIN_RATING /\ rating <= MAX_RATING) THEN "InvalidRating"
    ELSE "Ok"

RateAgentHandlerError(task_escrow, rating) ==
    IF ~(rating >= MIN_RATING /\ rating <= MAX_RATING) THEN "InvalidRating"
    ELSE IF ~(escrows[task_escrow].status = "Completed")
         THEN "InvalidTaskStatus"
    ELSE "Ok"

RateAgentError(task_escrow, agent_profile, client, rating) ==
    LET acc == RateAgentAccountsError(task_escrow, agent_profile, client)
    IN  IF acc # "Ok" THEN acc ELSE RateAgentHandlerError(task_escrow, rating)

\* mutant: the average is rounded up instead of truncated
RatedProfileRoundedUp(profile, rating) ==
    LET total == profile.total_ratings + 1
        sum == profile.rating_sum + rating
    IN  [ profile EXCEPT
            !.total_ratings = total,
            !.rating_sum = sum,
            !.reputation_score =
                (sum * REPUTATION_SCALE + total - 1) \div total ]

\* mutant: rating_sum is overwritten instead of accumulated
RatedProfileOverwrite(profile, rating) ==
    LET total == profile.total_ratings + 1
    IN  [ profile EXCEPT
            !.total_ratings = total,
            !.rating_sum = rating,
            !.reputation_score = (rating * REPUTATION_SCALE) \div total ]

\* the profile after one more rating
RatedProfile(profile, rating) ==
    LET total == profile.total_ratings + 1
        sum == profile.rating_sum + rating
    IN  [ profile EXCEPT
            !.total_ratings = total,
            !.rating_sum = sum,
            !.reputation_score = (sum * REPUTATION_SCALE) \div total ]

rate_agent(task_escrow, agent_profile, client, rating) ==
    LET err == RateAgentError(task_escrow, agent_profile, client, rating)
    IN  IF err # "Ok" THEN Abort("rate_agent", err)
        ELSE /\ profiles' = [profiles EXCEPT ![agent_profile] =
                                RatedProfile(@, rating)]
             /\ UNCHANGED << escrows, lamports >>
             /\ Commit("rate_agent",
                       [ kind |-> "AgentRated", agent |-> agent_profile,
                         rating |-> rating,
                         new_reputation |->
                             profiles'[agent_profile].reputation_score ])

\* ------------------------------------------------------------------------
\* Inputs and the next-state relation
\* ------------------------------------------------------------------------
ProfileKeys == { AgentPda(p) : p \in Principals }

\* task ids: one that fits a seed, one that only fits the handler's limit,
\* one that exceeds both
TaskIds == { Str(1, 2), Str(1, MAX_SEED_LEN + 1),
             Str(1, MAX_TASK_ID_LEN + 1) }

EscrowKeys == { EscrowPda(c, t) : c \in Principals,
                t \in { u \in TaskIds : Len(u) <= MAX_SEED_LEN } }

\* amounts offered: zero, affordable ones, and one more than a wallet
\* holds at the start
Amounts == 0..(InitialBalance + 1)

Ratings == { MIN_RATING - 1, MAX_RATING, MAX_RATING + 1 }

\* registration arguments: one valid set, and sets violating the checks
RegisterArgs ==
    { << Str(1, 3), << Str(1, 4) >>, 100, Str(1, 10) >>,
      << Str(1, MAX_NAME_LEN + 1), << Str(1, 4) >>, 100, Str(1, 10) >>,
      << Str(1, 3), [i \in 1..(MAX_CAPABILITIES + 1) |-> Str(1, 4)], 100,
         Str(1, 10) >>,
      << Str(1, 3), << Str(1, MAX_CAPABILITY_LEN + 1) >>, 100, Str(1, 10) >>,
      << Str(1, 3), << Str(1, 4) >>, 100, Str(1, MAX_METADATA_URI_LEN + 1) >>,
      << Str(1, 3), << Str(1, 4) >>, 0, Str(1, 10) >>,
      << Str(1, MAX_NAME_LEN + 1), << Str(1, 4) >>, 0, Str(1, 10) >> }

\* update arguments: nothing, a name, a name with a bad pricing, a bad uri
UpdateArgs ==
    { << None, None, None, None >>,
      << Some(Str(1, 3)), None, None, None >>,
      << Some(Str(1, 3)), None, Some(0), None >>,
      << None, None, None, Some(Str(1, MAX_METADATA_URI_LEN + 1)) >> }

\* rate_agent is explored while the profile's total_ratings is below the cap
RatingsBelowCap(agent_profile) ==
    agent_profile \in DOMAIN profiles
        => profiles[agent_profile].total_ratings < MaxRatings

Next ==
    \/ \E o \in Principals, a \in RegisterArgs :
          register_agent(o, a[1], a[2], a[3], a[4])
    \/ \E k \in ProfileKeys, o \in Principals, a \in UpdateArgs :
          update_agent(k, o, a[1], a[2], a[3], a[4])
    \/ \E k \in ProfileKeys, o \in Principals : deactivate_agent(k, o)
    \/ \E k \in ProfileKeys, o \in Principals : activate_agent(k, o)
    \/ \E c \in Principals, k \in ProfileKeys, t \in TaskIds, n \in Amounts :
          create_task(c, k, t, n)
    \/ \E e \in EscrowKeys, k \in ProfileKeys, o \in Principals :
          accept_task(e, k, o)
    \/ \E e \in EscrowKeys, k \in ProfileKeys, o \in Principals :
          complete_task(e, k, o)
    \/ \E e \in EscrowKeys, k \in ProfileKeys, c \in Principals,
          r \in Ratings :
          RatingsBelowCap(k) /\ rate_agent(e, k, c, r)

Spec == Init /\ [][Next]_vars

\* ------------------------------------------------------------------------
\* The end-to-end scenario: one agent owner, one client with 500 lamports,
\* two task ids, ratings 4 and 5, and updates that rename the profile
\* ------------------------------------------------------------------------
\* rate_agent is explored in the scenario while total_ratings is below this
MaxScenarioRatings == 3

ScenarioOwners == {"alice"}
ScenarioClients == {"bob"}
ScenarioTaskIds == { Str(1, 2), Str(2, 2) }
ScenarioEscrowKeys ==
    { EscrowPda(c, t) : c \in ScenarioClients, t \in ScenarioTaskIds }
ScenarioAmounts == {0, 250, 500}
ScenarioRatings == { MIN_RATING - 1, 4, MAX_RATING }

ScenarioRegisterArgs ==
    { << Str(1, 3), << Str(1, 4) >>, 100, Str(1, 10) >>,
      << Str(1, 3), << Str(1, 4) >>, 0, Str(1, 10) >> }

\* update arguments: nothing, a new name, and a new name together with an
\* invalid capabilities list, pricing or metadata_uri
ScenarioUpdateArgs ==
    { << None, None, None, None >>,
      << Some(Str(2, 3)), None, None, None >>,
      << Some(Str(2, 3)), Some(<< Str(1, MAX_CAPABILITY_LEN + 1) >>), None,
         None >>,
      << Some(Str(2, 3)),
         Some([i \in 1..(MAX_CAPABILITIES + 1) |-> Str(1, 4)]), None, None >>,
      << Some(Str(2, 3)), None, Some(0), None >>,
      << Some(Str(2, 3)), None, None,
         Some(Str(1, MAX_METADATA_URI_LEN + 1)) >>,
      << Some(Str(2, MAX_NAME_LEN + 1)), None, Some(200), None >> }

ScenarioRatingsBelowCap(agent_profile) ==
    agent_profile \in DOMAIN profiles
        => profiles[agent_profile].total_ratings < MaxScenarioRatings

InitScenario ==
    /\ profiles = << >>
    /\ escrows = << >>
    /\ lamports = [w \in { Wallet(p) : p \in Principals } |-> 500]
    /\ last = [op |-> "none", result |-> "Ok"]
    /\ emitted = << >>

NextScenario ==
    \/ \E o \in ScenarioOwners, a \in ScenarioRegisterArgs :
          register_agent(o, a[1], a[2], a[3], a[4])
    \/ \E k \in ProfileKeys, o \in Principals, a \in ScenarioUpdateArgs :
          update_agent(k, o, a[1], a[2], a[3], a[4])
    \/ \E k \in ProfileKeys, o \in Principals : deactivate_agent(k, o)
    \/ \E k \in ProfileKeys, o \in Principals : activate_agent(k, o)
    \/ \E c \in ScenarioClients, k \in ProfileKeys, t \in ScenarioTaskIds,
          n \in ScenarioAmounts :
          create_task(c, k, t, n)
    \/ \E e \in ScenarioEscrowKeys, k \in ProfileKeys, o \in Principals :
          accept_task(e, k, o)
    \/ \E e \in ScenarioEscrowKeys, k \in ProfileKeys, o \in Principals :
          complete_task(e, k, o)
    \/ \E e \in ScenarioEscrowKeys, k \in ProfileKeys, c \in Principals,
          r \in ScenarioRatings :
          ScenarioRatingsBelowCap(k) /\ rate_agent(e, k, c, r)

SpecScenario == InitScenario /\ [][NextScenario]_vars

\* ------------------------------------------------------------------------
\* The registry under every combination of supplied and omitted update
\* fields: one agent owner, one client funding one task of 1 lamport
\* ------------------------------------------------------------------------
RegistryNames == { None, Some(Str(2, 3)), Some(Str(2, MAX_NAME_LEN + 1)) }
RegistryCapabilities ==
    { None, Some(<< Str(2, 4), Str(2, 5) >>),
      Some(<< Str(2, MAX_CAPABILITY_LEN + 1) >>) }
RegistryPricings == { None, Some(200), Some(0) }
RegistryMetadataUris ==
    { None, Some(Str(2, 10)), Some(Str(2, MAX_METADATA_URI_LEN + 1)) }

RegistryUpdateArgs ==
    RegistryNames \X RegistryCapabilities \X RegistryPricings
        \X RegistryMetadataUris

RegistryTaskIds == { Str(1, 2) }
RegistryEscrowKeys ==
    { EscrowPda(c, t) : c \in ScenarioClients, t \in RegistryTaskIds }

NextRegistry ==
    \/ \E o \in ScenarioOwners, a \in ScenarioRegisterArgs :
          register_agent(o, a[1], a[2], a[3], a[4])
    \/ \E k \in ProfileKeys, o \in Principals, a \in RegistryUpdateArgs :
          update_agent(k, o, a[1], a[2], a[3], a[4])
    \/ \E k \in ProfileKeys, o \in Principals : deactivate_agent(k, o)
    \/ \E k \in ProfileKeys, o \in Principals : activate_agent(k, o)
    \/ \E c \in ScenarioClients, k \in ProfileKeys, t \in RegistryTaskIds :
          create_task(c, k, t, 1)
    \/ \E e \in RegistryEscrowKeys, k \in ProfileKeys, o \in Principals :
          accept_task(e, k, o)
    \/ \E e \in RegistryEscrowKeys, k \in ProfileKeys, o \in Principals :
          complete_task(e, k, o)
    \/ \E e \in RegistryEscrowKeys, k \in ProfileKeys, c \in Principals :
          RatingsBelowCap(k) /\ rate_agent(e, k, c, MAX_RATING)

SpecRegistry == Init /\ [][NextRegistry]_vars

\* ------------------------------------------------------------------------
\* Properties
\* ------------------------------------------------------------------------
\* the last transaction was op and it succeeded / failed
Succeeded(op) == last.op = op /\ last.result = "Ok"
Failed(op) == last.op = op /\ last.result # "Ok"

\* the last transaction was a successful op that emitted an event naming
\* escrow e
SucceededOn(op, e) ==
    /\ Succeeded(op)
    /\ Len(emitted) = 1
    /\ emitted[1].escrow = e

\* accounts, other than events and results, are untouched by the step
AccountsUnchanged == UNCHANGED << profiles, escrows, lamports >>

\* the owner recorded on the profile an escrow is bound to
BoundOwner(e) == profiles[escrows[e].agent].owner

\* C1: funds leave an escrow's custody at most once: a step changes the
\* lamports of an escrow only by a successful complete_task on it, which
\* finds it InProgress holding exactly its amount, empties it and credits
\* exactly that amount to the wallet of the owner of the bound profile and
\* to no other wallet; a Completed escrow is never completed again.
C1_Step ==
    \A e \in DOMAIN escrows :
        /\ e \in DOMAIN escrows' /\ e \in DOMAIN lamports'
        /\ escrows'[e].amount = escrows[e].amount
        /\ escrows'[e].agent = escrows[e].agent
        /\ escrows[e].status = "Completed" =>
              /\ escrows'[e].status = "Completed"
              /\ lamports'[e] = lamports[e]
        /\ SucceededOn("complete_task", e)' =>
              /\ escrows[e].status = "InProgress"
              /\ escrows'[e].status = "Completed"
              /\ lamports[e] - lamports'[e] = escrows[e].amount
        /\ lamports'[e] # lamports[e] =>
              /\ SucceededOn("complete_task", e)'
              /\ lamports[e] - lamports'[e] = escrows[e].amount
              /\ escrows[e].agent \in DOMAIN profiles
              /\ \A p \in Principals :
                    lamports'[Wallet(p)] =
                        IF p = BoundOwner(e)
                        THEN lamports[Wallet(p)] + escrows[e].amount
                        ELSE lamports[Wallet(p)]

C1_FundsLeaveAtMostOnce == [][C1_Step]_vars

\* C1 witness: complete_task has just paid out an escrow to the owner of
\* the bound profile, who is not the client
C1_Witness ==
    \E e \in DOMAIN escrows :
        /\ SucceededOn("complete_task", e)
        /\ escrows[e].status = "Completed"
        /\ lamports[e] = 0
        /\ BoundOwner(e) # escrows[e].client
        /\ lamports[Wallet(BoundOwner(e))] >= InitialBalance + escrows[e].amount

\* C2: an escrow that is Funded or InProgress holds exactly its amount, a
\* Completed one holds 0, and a step changes the lamports an escrow holds
\* only if it is a successful complete_task on that escrow.
C2_Inv ==
    \A e \in DOMAIN escrows :
        /\ e \in DOMAIN lamports
        /\ escrows[e].status \in {"Funded", "InProgress"} =>
              lamports[e] = escrows[e].amount
        /\ escrows[e].status = "Completed" => lamports[e] = 0

C2_Step ==
    \A e \in DOMAIN escrows :
        lamports'[e] # lamports[e] => SucceededOn("complete_task", e)'

C2_ExclusiveCustody == []C2_Inv /\ [][C2_Step]_vars

\* C2 witness: one escrow is paid out while another still holds its funds,
\* and an operation on a profile has just succeeded
C2_Witness ==
    /\ \E e \in DOMAIN escrows :
          escrows[e].status = "Completed" /\ lamports[e] = 0
    /\ \E e \in DOMAIN escrows :
          /\ escrows[e].status \in {"Funded", "InProgress"}
          /\ lamports[e] = escrows[e].amount
    /\ \/ Succeeded("deactivate_agent")
       \/ Succeeded("update_agent")

\* C3: complete_task succeeds only on an InProgress escrow and otherwise,
\* with valid accounts, fails with InvalidTaskStatus; its success empties
\* the escrow, credits the owner with the amount, sets Completed and adds 1
\* to the bound profile's tasks_completed in the same step.
C3_Inv ==
    \A e \in DOMAIN escrows, k \in DOMAIN profiles, o \in Principals :
        /\ CompleteTaskError(e, k, o) = "Ok" =>
              escrows[e].status = "InProgress"
        /\ (CompleteTaskAccountsError(e, k, o) = "Ok"
              /\ escrows[e].status # "InProgress") =>
              CompleteTaskError(e, k, o) = "InvalidTaskStatus"

C3_Step ==
    Succeeded("complete_task")' =>
        LET e == emitted'[1].escrow
            k == emitted'[1].agent
        IN  /\ e \in DOMAIN escrows /\ k \in DOMAIN profiles
            /\ k = escrows[e].agent
            /\ escrows[e].status = "InProgress"
            /\ escrows'[e].status = "Completed"
            /\ lamports[e] = escrows[e].amount
            /\ lamports'[e] = 0
            /\ lamports'[Wallet(profiles[k].owner)] =
                  lamports[Wallet(profiles[k].owner)] + escrows[e].amount
            /\ profiles'[k].tasks_completed = profiles[k].tasks_completed + 1
            /\ emitted'[1].amount = escrows[e].amount

C3_CompleteTask == []C3_Inv /\ [][C3_Step]_vars

\* C3 witness: a complete_task has just succeeded and counted the task
C3_Witness ==
    \E e \in DOMAIN escrows :
        /\ SucceededOn("complete_task", e)
        /\ lamports[e] = 0
        /\ profiles[escrows[e].agent].tasks_completed = 1

\* C4: a step changes an existing escrow's status only from Funded to
\* InProgress, by a successful accept_task on it, or from InProgress to
\* Completed, by a successful complete_task on it; escrows are never
\* removed, and no escrow is ever Disputed.
C4_Inv ==
    \A e \in DOMAIN escrows : escrows[e].status \in TaskStatus \ {"Disputed"}

C4_Step ==
    \A e \in DOMAIN escrows :
        /\ e \in DOMAIN escrows'
        /\ escrows'[e].status # escrows[e].status =>
              \/ /\ escrows[e].status = "Funded"
                 /\ escrows'[e].status = "InProgress"
                 /\ SucceededOn("accept_task", e)'
              \/ /\ escrows[e].status = "InProgress"
                 /\ escrows'[e].status = "Completed"
                 /\ SucceededOn("complete_task", e)'

C4_StatusForwardOnly == []C4_Inv /\ [][C4_Step]_vars

\* C4 witness: an escrow has reached Completed and accept_task on it has
\* just been refused
C4_Witness ==
    /\ last.op = "accept_task" /\ last.result = "InvalidTaskStatus"
    /\ escrows # << >>
    /\ \A e \in DOMAIN escrows : escrows[e].status = "Completed"

\* C5: create_task is all-or-nothing.  Its success creates exactly one new
\* escrow, Funded, with the given client, agent, amount and task_id, holding
\* amount, and debits the client by exactly amount, touching no other
\* account; its failure touches no account.  A call whose task_id exceeds
\* 64 bytes, whose amount is 0, whose profile is not Active or whose client
\* cannot pay fails.
C5_Inv ==
    \A c \in Principals, k \in DOMAIN profiles, t \in TaskIds, n \in Amounts :
        ( \/ Len(t) > MAX_TASK_ID_LEN
          \/ n = 0
          \/ profiles[k].status # "Active"
          \/ lamports[Wallet(c)] < n ) => CreateTaskError(c, k, t, n) # "Ok"

C5_Step ==
    /\ Failed("create_task")' => AccountsUnchanged
    /\ Succeeded("create_task")' =>
          LET ev == emitted'[1]
              e == ev.escrow
          IN  /\ e = EscrowPda(ev.client, ev.task_id)
              /\ e \notin DOMAIN escrows
              /\ DOMAIN escrows' = DOMAIN escrows \cup {e}
              /\ \A x \in DOMAIN escrows : escrows'[x] = escrows[x]
              /\ escrows'[e] = [ client |-> ev.client, agent |-> ev.agent,
                                 amount |-> ev.amount, status |-> "Funded",
                                 task_id |-> ev.task_id ]
              /\ ev.amount > 0
              /\ DOMAIN lamports' = DOMAIN lamports \cup {e}
              /\ lamports'[e] = ev.amount
              /\ lamports'[Wallet(ev.client)] =
                    lamports[Wallet(ev.client)] - ev.amount
              /\ \A a \in DOMAIN lamports \ {Wallet(ev.client)} :
                    lamports'[a] = lamports[a]
              /\ profiles' = profiles

C5_CreateTaskAllOrNothing == []C5_Inv /\ [][C5_Step]_vars

\* C5 witness: a create_task has just succeeded and emptied the client's
\* wallet into the new escrow
C5_Witness ==
    \E e \in DOMAIN escrows :
        /\ SucceededOn("create_task", e)
        /\ escrows[e].status = "Funded"
        /\ lamports[e] = escrows[e].amount
        /\ lamports[Wallet(escrows[e].client)] = 0

\* C6: create_task against a profile that is not Active fails whatever the
\* task_id and amount are, and fails with AgentNotActive when the task_id is
\* at most 64 bytes long and the amount is positive.
C6_InactiveRejected ==
    \A c \in Principals, k \in DOMAIN profiles, t \in TaskIds, n \in Amounts :
        profiles[k].status # "Active" =>
            /\ CreateTaskError(c, k, t, n) # "Ok"
            /\ (Len(t) <= MAX_TASK_ID_LEN /\ n > 0) =>
                  CreateTaskError(c, k, t, n) = "AgentNotActive"

\* C7: while an escrow exists at (client, task_id), every create_task of
\* that client with that task_id fails, whatever profile and amount it
\* names and whatever the escrow's status is; and no create_task step
\* changes an existing escrow, its lamports, or, when it fails, any wallet.
C7_Inv ==
    \A e \in DOMAIN escrows, k \in ProfileKeys, n \in Amounts :
        CreateTaskError(escrows[e].client, k, escrows[e].task_id, n) # "Ok"

C7_Step ==
    (last.op = "create_task")' =>
        /\ \A e \in DOMAIN escrows :
              /\ e \in DOMAIN escrows' /\ escrows'[e] = escrows[e]
              /\ e \in DOMAIN lamports' /\ lamports'[e] = lamports[e]
        /\ Failed("create_task")' => lamports' = lamports

C7_NoOverwrite == []C7_Inv /\ [][C7_Step]_vars

\* C7 witness: a create_task has just been refused because the address is
\* occupied, by an escrow that is already Completed
C7_Witness ==
    /\ last.op = "create_task" /\ last.result = "AccountAlreadyInUse"
    /\ escrows # << >>
    /\ \A e \in DOMAIN escrows : escrows[e].status = "Completed"

\* C8: accept_task succeeds only on a Funded escrow; with valid accounts it
\* fails with InvalidTaskStatus on an InProgress or Completed escrow, so a
\* second accept_task right after a successful one fails with
\* InvalidTaskStatus and leaves the escrow InProgress.
C8_Inv ==
    \A e \in DOMAIN escrows :
        /\ \A k \in DOMAIN profiles, o \in Principals :
              /\ AcceptTaskError(e, k, o) = "Ok" =>
                    escrows[e].status = "Funded"
              /\ (AgentActionAccountsError(e, k, o) = "Ok"
                    /\ escrows[e].status \in {"InProgress", "Completed"}) =>
                    AcceptTaskError(e, k, o) = "InvalidTaskStatus"
        /\ SucceededOn("accept_task", e) =>
              /\ escrows[e].status = "InProgress"
              /\ AcceptTaskError(e, escrows[e].agent, BoundOwner(e)) =
                    "InvalidTaskStatus"

C8_Step ==
    /\ Failed("accept_task")' => AccountsUnchanged
    /\ \A e \in DOMAIN escrows :
          (SucceededOn("accept_task", e)
              /\ accept_task(e, escrows[e].agent, BoundOwner(e))) =>
              /\ last'.result = "InvalidTaskStatus"
              /\ escrows'[e].status = "InProgress"

C8_AcceptOnlyFromFunded == []C8_Inv /\ [][C8_Step]_vars

\* C8 witness: an accept_task has just been refused with InvalidTaskStatus
\* while the only escrow is InProgress
C8_Witness ==
    /\ last.op = "accept_task" /\ last.result = "InvalidTaskStatus"
    /\ Cardinality(DOMAIN escrows) = 1
    /\ \A e \in DOMAIN escrows : escrows[e].status = "InProgress"

\* C9: accept_task and complete_task succeed only for the profile bound to
\* the escrow and the owner recorded on it; a call with another profile
\* fails with AgentMismatch, and a call with the bound profile signed by a
\* principal who is not its owner fails with Unauthorized.
C9_AuthorizationErrors ==
    \A e \in DOMAIN escrows, k \in DOMAIN profiles, o \in Principals :
        /\ AcceptTaskError(e, k, o) = "Ok" =>
              k = escrows[e].agent /\ o = profiles[k].owner
        /\ CompleteTaskError(e, k, o) = "Ok" =>
              k = escrows[e].agent /\ o = profiles[k].owner
        /\ k # escrows[e].agent =>
              /\ AcceptTaskError(e, k, o) = "AgentMismatch"
              /\ CompleteTaskError(e, k, o) = "AgentMismatch"
        /\ (k = escrows[e].agent /\ o # profiles[k].owner) =>
              /\ AcceptTaskError(e, k, o) = "Unauthorized"
              /\ CompleteTaskError(e, k, o) = "Unauthorized"

\* C10: rate_agent fails whenever the escrow is not Completed, the rating
\* is outside [1,5] or the signer is not the escrow's client (with
\* InvalidRating resp. InvalidTaskStatus when the accounts are valid), and
\* a failure changes no profile; a success changes only the profile the
\* escrow is bound to.
C10_Inv ==
    \A e \in DOMAIN escrows, k \in DOMAIN profiles, c \in Principals,
       r \in Ratings :
        /\ ( \/ escrows[e].status # "Completed"
             \/ r < MIN_RATING \/ r > MAX_RATING
             \/ c # escrows[e].client ) => RateAgentError(e, k, c, r) # "Ok"
        /\ RateAgentError(e, k, c, r) = "Ok" => k = escrows[e].agent
        /\ RateAgentAccountsError(e, k, c) = "Ok" =>
              /\ (r < MIN_RATING \/ r > MAX_RATING) =>
                    RateAgentError(e, k, c, r) = "InvalidRating"
              /\ (r >= MIN_RATING /\ r <= MAX_RATING
                    /\ escrows[e].status # "Completed") =>
                    RateAgentError(e, k, c, r) = "InvalidTaskStatus"

C10_Step ==
    /\ Failed("rate_agent")' => AccountsUnchanged
    /\ Succeeded("rate_agent")' =>
          LET k == emitted'[1].agent
          IN  /\ DOMAIN profiles' = DOMAIN profiles
              /\ \A x \in DOMAIN profiles \ {k} : profiles'[x] = profiles[x]
              /\ \E e \in DOMAIN escrows :
                    escrows[e].agent = k /\ escrows[e].status = "Completed"
              /\ profiles'[k].total_ratings = profiles[k].total_ratings + 1
              /\ profiles'[k].rating_sum =
                    profiles[k].rating_sum + emitted'[1].rating
              /\ UNCHANGED << escrows, lamports >>

C10_RateAgentGuards == []C10_Inv /\ [][C10_Step]_vars

\* C10 witness: a rate_agent has just been refused with InvalidTaskStatus
\* while no escrow is Completed and no profile has a rating
C10_Witness ==
    /\ last.op = "rate_agent" /\ last.result = "InvalidTaskStatus"
    /\ escrows # << >>
    /\ \A e \in DOMAIN escrows : escrows[e].status # "Completed"
    /\ \A k \in DOMAIN profiles : profiles[k].total_ratings = 0

\* C11: for every profile, reputation_score is floor(rating_sum * 100 /
\* total_ratings) when total_ratings > 0, and reputation_score and
\* rating_sum are 0 when total_ratings is 0.
C11_ReputationInvariant ==
    \A k \in DOMAIN profiles :
        LET p == profiles[k]
        IN  IF p.total_ratings = 0
            THEN p.reputation_score = 0 /\ p.rating_sum = 0
            ELSE /\ p.reputation_score * p.total_ratings <= p.rating_sum * 100
                 /\ p.rating_sum * 100 <
                       (p.reputation_score + 1) * p.total_ratings

\* C11 witness: three ratings whose average is truncated (13 * 100 / 3 =
\* 433), on a profile that has been deactivated in between
C11_Witness ==
    \E k \in DOMAIN profiles :
        /\ profiles[k].total_ratings = 3
        /\ profiles[k].rating_sum = 13
        /\ profiles[k].reputation_score = 433
        /\ profiles[k].status = "Inactive"
        /\ Succeeded("rate_agent")

\* C12: every error leaves every profile, every escrow and every balance
\* exactly as it was and emits nothing; an update_agent call in which any
\* supplied field breaks its limit fails, so a valid new name supplied with
\* an invalid other field does not replace the recorded name.
C12_InvalidPatch(a) ==
    \/ IsSome(a[1]) /\ Len(Unwrap(a[1])) > 64
    \/ IsSome(a[2]) /\ Len(Unwrap(a[2])) > 8
    \/ IsSome(a[2]) /\ \E i \in DOMAIN Unwrap(a[2]) : Len(Unwrap(a[2])[i]) > 32
    \/ IsSome(a[3]) /\ Unwrap(a[3]) = 0
    \/ IsSome(a[4]) /\ Len(Unwrap(a[4])) > 200

C12_Step ==
    /\ (last.result # "Ok")' => AccountsUnchanged /\ emitted' = << >>
    /\ (last.op = "update_agent")' =>
          \A k \in ProfileKeys, o \in Principals, a \in ScenarioUpdateArgs :
              C12_InvalidPatch(a) /\ update_agent(k, o, a[1], a[2], a[3], a[4])
                  => Failed("update_agent")' /\ AccountsUnchanged

C12_ErrorsChangeNothing == [][C12_Step]_vars

\* an update supplying the new name and a zero price has just failed, and
\* the profile still carries the name it was registered with
C12_Witness ==
    /\ Failed("update_agent")
    /\ last.result = "InvalidPricing"
    /\ \E k \in DOMAIN profiles :
          /\ profiles[k].name = Str(1, 3)
          /\ profiles[k].pricing_lamports = 100
          /\ profiles[k].total_ratings > 0

\* C13: update, deactivate and activate change a profile only when signed
\* by its recorded owner: a call by any other principal against the profile
\* fails and leaves it unchanged, a step changing its name, capabilities,
\* pricing, metadata_uri or status is a successful one of the three signed
\* by the recorded owner, and no step changes or removes a profile's owner.
C13_Inv ==
    \A k \in DOMAIN profiles :
        \A o \in Principals \ { profiles[k].owner } :
            /\ UpdateAgentAccountsError(k, o) # "Ok"
            /\ \A a \in ScenarioUpdateArgs :
                  UpdateAgentError(k, o, a[1], a[2], a[3], a[4]) # "Ok"

C13_RegistryFields(p) ==
    << p.name, p.capabilities, p.pricing_lamports, p.metadata_uri, p.status >>

C13_Step ==
    \A k \in DOMAIN profiles :
        /\ k \in DOMAIN profiles'
        /\ profiles'[k].owner = profiles[k].owner
        /\ C13_RegistryFields(profiles'[k]) # C13_RegistryFields(profiles[k])
              => /\ last'.op \in { "update_agent", "deactivate_agent",
                                   "activate_agent" }
                 /\ last'.result = "Ok"
                 /\ emitted'[1].agent = k
                 /\ emitted'[1].owner = profiles[k].owner
        /\ \A o \in Principals \ { profiles[k].owner } :
              ( \/ deactivate_agent(k, o)
                \/ activate_agent(k, o)
                \/ \E a \in ScenarioUpdateArgs :
                      update_agent(k, o, a[1], a[2], a[3], a[4]) )
                  => last'.result # "Ok" /\ profiles'[k] = profiles[k]

C13_OwnerOnly == []C13_Inv /\ [][C13_Step]_vars

\* a principal other than the owner has just called deactivate_agent on an
\* existing, renamed, Active profile and failed
C13_Witness ==
    /\ Failed("deactivate_agent")
    /\ last.result = "ConstraintSeeds"
    /\ \E k \in DOMAIN profiles :
          /\ profiles[k].owner = "alice"
          /\ profiles[k].name = Str(2, 3)
          /\ profiles[k].status = "Active"

\* C14: rate_agent has no idempotency guard: the client of a Completed
\* escrow can always rate it again with any rating in [1,5], however many
\* ratings the profile already has, and each successful call adds 1 to
\* total_ratings and the rating to rating_sum; when one task of 500 has
\* been created, accepted and completed and then rated 4 and 5, the
\* profile has tasks_completed 1, total_ratings 2, rating_sum 9 and
\* reputation_score 450, and the owner's balance is up by 500.
C14_Inv ==
    /\ \A e \in DOMAIN escrows :
          escrows[e].status = "Completed" =>
              \A r \in MIN_RATING..MAX_RATING :
                  RateAgentError(e, escrows[e].agent, escrows[e].client, r)
                      = "Ok"
    /\ \A e \in DOMAIN escrows :
          LET k == escrows[e].agent
          IN  ( /\ DOMAIN escrows = {e}
                /\ escrows[e].status = "Completed"
                /\ escrows[e].amount = 500
                /\ profiles[k].total_ratings = 2
                /\ profiles[k].rating_sum = 9 )
              => /\ profiles[k].tasks_completed = 1
                 /\ profiles[k].reputation_score = 450
                 /\ lamports[Wallet(profiles[k].owner)] = 500 + 500
                 /\ lamports[Wallet(escrows[e].client)] = 0

C14_Step ==
    Succeeded("rate_agent")' =>
        LET k == emitted'[1].agent
        IN  /\ profiles'[k].total_ratings = profiles[k].total_ratings + 1
            /\ profiles'[k].rating_sum
                  = profiles[k].rating_sum + emitted'[1].rating
            /\ \E e \in DOMAIN escrows :
                  /\ escrows[e].agent = k
                  /\ escrows[e].status = "Completed"
            /\ UNCHANGED << escrows, lamports >>

C14_RateRepeatedly == []C14_Inv /\ [][C14_Step]_vars

\* the single escrow of 500 has been completed and its second rating, a 5
\* after a 4, has just succeeded
C14_Witness ==
    /\ Succeeded("rate_agent")
    /\ emitted[1].rating = 5
    /\ emitted[1].new_reputation = 450
    /\ \E e \in DOMAIN escrows :
          /\ DOMAIN escrows = {e}
          /\ escrows[e].amount = 500
          /\ profiles[escrows[e].agent].total_ratings = 2
          /\ profiles[escrows[e].agent].rating_sum = 9
          /\ profiles[escrows[e].agent].tasks_completed = 1

\* C15: create_task accepts every task_id of at most 64 bytes when the
\* amount is positive, the agent is Active, the client has the funds and
\* the (client, task_id) address is unoccupied, and rejects with
\* TaskIdTooLong exactly the task_ids longer than 64 bytes.
C15_TaskIdUpTo64Accepted ==
    \A c \in Principals, k \in DOMAIN profiles, t \in TaskIds, n \in Amounts :
        /\ ( /\ Len(t) <= MAX_TASK_ID_LEN
             /\ n > 0
             /\ profiles[k].status = "Active"
             /\ lamports[Wallet(c)] >= n
             /\ EscrowPda(c, t) \notin DOMAIN escrows )
           => CreateTaskError(c, k, t, n) = "Ok"
        /\ Len(t) > MAX_TASK_ID_LEN
           <=> CreateTaskError(c, k, t, n) = "TaskIdTooLong"

\* C16: a successful operation emits exactly one event, of the kind
\* matching the operation and carrying the resulting values; a failing
\* operation emits none; deactivate_agent and activate_agent by the owner
\* succeed and emit their event also on a profile already in the target
\* status.
C16_EventKind(op) ==
    CASE op = "register_agent" -> "AgentRegistered"
      [] op = "update_agent" -> "AgentUpdated"
      [] op = "deactivate_agent" -> "AgentDeactivated"
      [] op = "activate_agent" -> "AgentActivated"
      [] op = "create_task" -> "TaskCreated"
      [] op = "accept_task" -> "TaskAccepted"
      [] op = "complete_task" -> "TaskCompleted"
      [] op = "rate_agent" -> "AgentRated"

C16_ResultingValues(ev) ==
    CASE ev.kind = "AgentRegistered" ->
           /\ ev.agent \in DOMAIN profiles
           /\ profiles[ev.agent].owner = ev.owner
           /\ profiles[ev.agent].name = ev.name
           /\ profiles[ev.agent].capabilities = ev.capabilities
           /\ profiles[ev.agent].pricing_lamports = ev.pricing_lamports
           /\ profiles[ev.agent].metadata_uri = ev.metadata_uri
      [] ev.kind \in { "AgentUpdated", "AgentDeactivated", "AgentActivated" } ->
           /\ ev.agent \in DOMAIN profiles
           /\ profiles[ev.agent].owner = ev.owner
           /\ ev.kind = "AgentDeactivated"
                 => profiles[ev.agent].status = "Inactive"
           /\ ev.kind = "AgentActivated"
                 => profiles[ev.agent].status = "Active"
      [] ev.kind = "TaskCreated" ->
           /\ ev.escrow \in DOMAIN escrows
           /\ escrows[ev.escrow].client = ev.client
           /\ escrows[ev.escrow].agent = ev.agent
           /\ escrows[ev.escrow].task_id = ev.task_id
           /\ escrows[ev.escrow].amount = ev.amount
           /\ escrows[ev.escrow].status = "Funded"
      [] ev.kind = "TaskAccepted" ->
           /\ ev.escrow \in DOMAIN escrows
           /\ escrows[ev.escrow].agent = ev.agent
           /\ escrows[ev.escrow].status = "InProgress"
      [] ev.kind = "TaskCompleted" ->
           /\ ev.escrow \in DOMAIN escrows
           /\ escrows[ev.escrow].agent = ev.agent
           /\ escrows[ev.escrow].amount = ev.amount
           /\ escrows[ev.escrow].status = "Completed"
      [] ev.kind = "AgentRated" ->
           /\ ev.agent \in DOMAIN profiles
           /\ ev.rating \in MIN_RATING..MAX_RATING
           /\ profiles[ev.agent].reputation_score = ev.new_reputation

C16_Inv ==
    /\ last.result # "Ok" => emitted = << >>
    /\ (last.result = "Ok" /\ last.op # "none") =>
          /\ Len(emitted) = 1
          /\ emitted[1].kind = C16_EventKind(last.op)
          /\ C16_ResultingValues(emitted[1])
    /\ \A k \in DOMAIN profiles :
          UpdateAgentAccountsError(k, profiles[k].owner) = "Ok"

C16_Step ==
    \A k \in DOMAIN profiles :
        LET o == profiles[k].owner
        IN  /\ (profiles[k].status = "Inactive" /\ deactivate_agent(k, o))
                  => /\ Succeeded("deactivate_agent")'
                     /\ emitted' = << [ kind |-> "AgentDeactivated",
                                        agent |-> k, owner |-> o ] >>
                     /\ profiles' = profiles
            /\ (profiles[k].status = "Active" /\ activate_agent(k, o))
                  => /\ Succeeded("activate_agent")'
                     /\ emitted' = << [ kind |-> "AgentActivated",
                                        agent |-> k, owner |-> o ] >>
                     /\ profiles' = profiles

C16_OneEventPerSuccess == []C16_Inv /\ [][C16_Step]_vars

\* a rating has just succeeded and its event carries the new reputation of
\* a profile that was deactivated before
C16_Witness ==
    /\ Succeeded("rate_agent")
    /\ Len(emitted) = 1
    /\ emitted[1].kind = "AgentRated"
    /\ emitted[1].new_reputation = MAX_RATING * REPUTATION_SCALE
    /\ profiles[emitted[1].agent].status = "Inactive"

\* C17: a successful update_agent replaces exactly the supplied fields
\* (each of name, capabilities, pricing, metadata_uri independently) with
\* the supplied values and leaves every omitted field, and owner, status,
\* reputation_score, tasks_completed, total_ratings and rating_sum,
\* unchanged; the owner's update with all four omitted succeeds and
\* changes nothing.
C17_Inv ==
    \A k \in DOMAIN profiles :
        UpdateAgentError(k, profiles[k].owner, None, None, None, None) = "Ok"

C17_Step ==
    Succeeded("update_agent")' =>
    \A k \in { emitted'[1].agent }, o \in { emitted'[1].owner },
       a \in RegistryUpdateArgs :
        update_agent(k, o, a[1], a[2], a[3], a[4])
        => LET old == profiles[k]
               new == profiles'[k]
           IN  /\ new.name = IF a[1] = None THEN old.name ELSE a[1][1]
               /\ new.capabilities
                     = IF a[2] = None THEN old.capabilities ELSE a[2][1]
               /\ new.pricing_lamports
                     = IF a[3] = None THEN old.pricing_lamports ELSE a[3][1]
               /\ new.metadata_uri
                     = IF a[4] = None THEN old.metadata_uri ELSE a[4][1]
               /\ new.owner = old.owner
               /\ new.status = old.status
               /\ new.reputation_score = old.reputation_score
               /\ new.tasks_completed = old.tasks_completed
               /\ new.total_ratings = old.total_ratings
               /\ new.rating_sum = old.rating_sum
               /\ DOMAIN profiles' = DOMAIN profiles
               /\ \A j \in DOMAIN profiles \ {k} : profiles'[j] = profiles[j]
               /\ UNCHANGED << escrows, lamports >>
               /\ a = << None, None, None, None >> => profiles' = profiles

C17_UpdateReplacesSupplied == []C17_Inv /\ [][C17_Step]_vars

\* an update has just succeeded on a rated, deactivated profile that now
\* carries a replaced name and metadata_uri next to the capabilities and
\* pricing it was registered with
C17_Witness ==
    /\ Succeeded("update_agent")
    /\ \E k \in DOMAIN profiles :
          /\ emitted[1].agent = k
          /\ profiles[k].name = Str(2, 3)
          /\ profiles[k].metadata_uri = Str(2, 10)
          /\ profiles[k].capabilities = << Str(1, 4) >>
          /\ profiles[k].pricing_lamports = 100
          /\ profiles[k].status = "Inactive"
          /\ profiles[k].tasks_completed = 1
          /\ profiles[k].reputation_score = MAX_RATING * REPUTATION_SCALE

\* C18: each profile's tasks_completed equals the number of escrows bound
\* to it whose status is Completed; it never decreases, and a step changes
\* it only by a successful complete_task on that profile, by exactly 1.
C18_Inv ==
    \A k \in DOMAIN profiles :
        profiles[k].tasks_completed
            = Cardinality({ e \in DOMAIN escrows :
                              /\ escrows[e].agent = k
                              /\ escrows[e].status = "Completed" })

C18_Step ==
    \A k \in DOMAIN profiles :
        /\ k \in DOMAIN profiles'
        /\ profiles'[k].tasks_completed >= profiles[k].tasks_completed
        /\ profiles'[k].tasks_completed # profiles[k].tasks_completed
              => /\ Succeeded("complete_task")'
                 /\ emitted'[1].agent = k
                 /\ profiles'[k].tasks_completed
                       = profiles[k].tasks_completed + 1

C18_TasksCompletedCounts == []C18_Inv /\ [][C18_Step]_vars

\* one profile has completed two tasks while the other, also registered,
\* has completed none
C18_Witness ==
    /\ Succeeded("complete_task")
    /\ \E k \in DOMAIN profiles, j \in DOMAIN profiles :
          /\ profiles[k].tasks_completed = 2
          /\ profiles[j].tasks_completed = 0
          /\ emitted[1].agent = k

\* sum of f over the finite set S
RECURSIVE C19_Sum(_, _)
C19_Sum(f, S) ==
    IF S = {} THEN 0
    ELSE LET x == CHOOSE y \in S : TRUE
         IN  f[x] + C19_Sum(f, S \ {x})

\* C19: currency is conserved: the wallets and the escrows together hold
\* the initial total in every state, and the escrows together hold the sum
\* of amount over the escrows that are Funded or InProgress.
C19_Conservation ==
    /\ C19_Sum(lamports, DOMAIN lamports)
          = Cardinality(Principals) * InitialBalance
    /\ C19_Sum(lamports, DOMAIN escrows)
          = C19_Sum([e \in DOMAIN escrows |-> escrows[e].amount],
                    { e \in DOMAIN escrows :
                        escrows[e].status \in {"Funded", "InProgress"} })

\* one escrow has paid out and another holds everything there is
C19_Witness ==
    \E e \in DOMAIN escrows, d \in DOMAIN escrows :
        /\ escrows[e].status = "Completed"
        /\ lamports[e] = 0
        /\ escrows[d].status \in {"Funded", "InProgress"}
        /\ lamports[d] = Cardinality(Principals) * InitialBalance

\* C20: deactivation gates only task creation: an escrow bound to an
\* Inactive profile can be accepted when Funded and completed when
\* InProgress by the profile's owner, who is then paid its amount, and
\* rated when Completed by its client, which updates the Inactive profile;
\* a task is created only against a profile that is Active.
C20_Inv ==
    \A e \in DOMAIN escrows :
        LET k == escrows[e].agent
        IN  profiles[k].status = "Inactive" =>
              /\ escrows[e].status = "Funded"
                    => AcceptTaskError(e, k, profiles[k].owner) = "Ok"
              /\ escrows[e].status = "InProgress"
                    => CompleteTaskError(e, k, profiles[k].owner) = "Ok"
              /\ escrows[e].status = "Completed"
                    => \A r \in MIN_RATING..MAX_RATING :
                          RateAgentError(e, k, escrows[e].client, r) = "Ok"

C20_Step ==
    /\ Succeeded("create_task")'
          => profiles[emitted'[1].agent].status = "Active"
    /\ Succeeded("complete_task")' =>
          LET e == emitted'[1].escrow
              k == emitted'[1].agent
          IN  profiles[k].status = "Inactive" =>
                /\ escrows[e].status = "InProgress"
                /\ escrows'[e].status = "Completed"
                /\ lamports'[e] = 0
                /\ lamports'[Wallet(profiles[k].owner)]
                      = lamports[Wallet(profiles[k].owner)] + escrows[e].amount
    /\ Succeeded("rate_agent")' =>
          LET k == emitted'[1].agent
          IN  profiles[k].status = "Inactive" =>
                /\ profiles'[k].status = "Inactive"
                /\ profiles'[k].total_ratings = profiles[k].total_ratings + 1

C20_DeactivationGatesCreationOnly == []C20_Inv /\ [][C20_Step]_vars

\* a task has just been completed and paid out to the owner of a profile
\* that is Inactive
C20_Witness ==
    /\ Succeeded("complete_task")
    /\ profiles[emitted[1].agent].status = "Inactive"
    /\ escrows[emitted[1].escrow].status = "Completed"
    /\ emitted[1].amount > 0
    /\ lamports[Wallet(profiles[emitted[1].agent].owner)] > InitialBalance

====
